---------------------------- MODULE Spec2Model ----------------------------
(***************************************************************************)
(* A model of .github/zap/scripts/generate_report.py: main() loads an HTML *)
(* template and a ZAP JSON report, generate_html() substitutes the         *)
(* template's placeholders with markup generated from the report, and      *)
(* main() writes the result.                                               *)
(*                                                                         *)
(* Text is a sequence of tokens.  A token is one character of report data  *)
(* ("<", "&", "BS" for a backslash, "NL" for a newline, a digit, a letter) *)
(* or one indivisible piece of markup (a placeholder's opening tag, a      *)
(* chunk of the generated HTML, with its layout whitespace left out).  No  *)
(* sequence of character tokens spells a markup token, so matching a       *)
(* regular expression token by token is matching it character by           *)
(* character.                                                              *)
(***************************************************************************)
EXTENDS Integers, Sequences, FiniteSets, TLC

\* ------------------------------------------------------------------ bounds
MaxAlerts == 2      \* alerts of the first site, in the severity family
MaxListed == 3      \* alerts of the first site, in the instance family
MaxInst == 2        \* instances of one alert
MaxIdLen == 2       \* characters of a cweid / wascid string
MaxTextLen == 2     \* characters of a free-text field
MaxTplSegs == 2     \* segments of a template, in the template family

\* ------------------------------------------------------- sequence helpers
RECURSIVE Flatten(_)
Flatten(ss) == IF ss = <<>> THEN <<>> ELSE Head(ss) \o Flatten(Tail(ss))

RECURSIVE SeqsUpTo(_, _)
SeqsUpTo(S, n) ==
    IF n = 0 THEN {<<>>}
    ELSE LET shorter == SeqsUpTo(S, n - 1)
         IN  shorter \cup {Append(s, x) : s \in shorter, x \in S}

Range(s) == {s[i] : i \in 1..Len(s)}

\* s[i..] starts with t
StartsAt(s, i, t) ==
    /\ i + Len(t) - 1 <= Len(s)
    /\ \A k \in 1..Len(t) : s[i + k - 1] = t[k]

Contains(s, t) == \E i \in 1..(Len(s) + 1) : StartsAt(s, i, t)

\* -------------------------------------------------------------- JSON values
JStr(s) == [t |-> "str", s |-> s]
JInt(n) == [t |-> "int", n |-> n]
JList(l) == [t |-> "list", l |-> l]
JDict(d) == [t |-> "dict", d |-> d]
JNull == [t |-> "null"]
Absent == [t |-> "absent"]

\* dict.get(key, default): the default only when the key is missing
Get(v, default) == IF v.t = "absent" THEN default ELSE v

\* ----------------------------------------------------- Python conversions
Digits == <<"0", "1", "2", "3", "4", "5", "6", "7", "8", "9">>
DigitSet == Range(Digits)
DigitVal(c) == (CHOOSE i \in 1..10 : Digits[i] = c) - 1
Whitespace == {" ", "NL", "TAB"}

RECURSIVE NatStr(_)
NatStr(n) == IF n < 10 THEN <<Digits[n + 1]>>
             ELSE NatStr(n \div 10) \o <<Digits[(n % 10) + 1]>>

\* str(int)
IntStr(n) == IF n < 0 THEN <<"-">> \o NatStr(-n) ELSE NatStr(n)

\* str.strip()
RECURSIVE LStrip(_)
LStrip(s) == IF s # <<>> /\ Head(s) \in Whitespace THEN LStrip(Tail(s)) ELSE s
RECURSIVE RStrip(_)
RStrip(s) == IF s # <<>> /\ s[Len(s)] \in Whitespace
             THEN RStrip(SubSeq(s, 1, Len(s) - 1)) ELSE s
Strip(s) == RStrip(LStrip(s))

\* The digits of an int() literal: decimal digits, single underscores between
RECURSIVE DigitsOk(_, _)
DigitsOk(s, afterDigit) ==
    IF s = <<>> THEN afterDigit
    ELSE IF Head(s) \in DigitSet THEN DigitsOk(Tail(s), TRUE)
    ELSE IF Head(s) = "_" THEN afterDigit /\ DigitsOk(Tail(s), FALSE)
    ELSE FALSE

RECURSIVE DigitsValue(_, _)
DigitsValue(s, acc) ==
    IF s = <<>> THEN acc
    ELSE IF Head(s) = "_" THEN DigitsValue(Tail(s), acc)
    ELSE DigitsValue(Tail(s), 10 * acc + DigitVal(Head(s)))

Unsigned(s) == IF s # <<>> /\ Head(s) \in {"+", "-"} THEN Tail(s) ELSE s

\* int(str) succeeds: optional whitespace, optional sign, digits
IntLiteralOk(s) == DigitsOk(Unsigned(Strip(s)), FALSE)
IntLiteralValue(s) ==
    LET b == Strip(s)
        v == DigitsValue(Unsigned(b), 0)
    IN  IF Head(b) = "-" THEN -v ELSE v

\* int(v): "" when it succeeds, else the exception it raises
PyIntExc(v) ==
    CASE v.t = "int" -> ""
      [] v.t = "str" -> IF IntLiteralOk(v.s) THEN "" ELSE "ValueError"
      [] OTHER -> "TypeError"
PyInt(v) == IF v.t = "int" THEN v.n ELSE IntLiteralValue(v.s)

\* str(v), also what an f-string puts for {v}
PyStr(v) ==
    CASE v.t = "str" -> v.s
      [] v.t = "int" -> IntStr(v.n)
      [] v.t = "null" -> <<"None">>
      [] OTHER -> <<"OBJ">>

\* bool(v)
Truthy(v) ==
    CASE v.t = "str" -> v.s # <<>>
      [] v.t = "int" -> v.n # 0
      [] v.t = "list" -> v.l # <<>>
      [] v.t = "dict" -> TRUE
      [] OTHER -> FALSE

\* str.isdigit(): non-empty, every character a digit; the superscript two
\* ("SUP2") is a digit to isdigit() and not to int()
IsDigit(s) == s # <<>> /\ \A i \in 1..Len(s) : s[i] \in DigitSet \cup {"SUP2"}

\* html.escape(s) (quote=True)
EscapeChar(c) ==
    CASE c = "&" -> "&amp;"
      [] c = "<" -> "&lt;"
      [] c = ">" -> "&gt;"
      [] c = "QUOT" -> "&quot;"
      [] c = "APOS" -> "&#x27;"
      [] OTHER -> c
HtmlEscape(s) == [i \in 1..Len(s) |-> EscapeChar(s[i])]

\* s.replace('\n', '<br>')
NlToBr(s) == [i \in 1..Len(s) |-> IF s[i] = "NL" THEN "<br>" ELSE s[i]]

\* s.split('\n')
RECURSIVE SplitNl(_, _)
SplitNl(s, cur) ==
    IF s = <<>> THEN <<cur>>
    ELSE IF Head(s) = "NL" THEN <<cur>> \o SplitNl(Tail(s), <<>>)
    ELSE SplitNl(Tail(s), Append(cur, Head(s)))

get_risk_string(risk_level) ==
    CASE risk_level = 3 -> "High"
      [] risk_level = 2 -> "Medium"
      [] risk_level = 1 -> "Low"
      [] risk_level = 0 -> "Informational"
      [] OTHER -> "Unknown"

\* ------------------------------------------------------------ re.sub
\* A pattern is a sequence of elements: a literal token, or a gap that takes
\* any number of tokens of a class ("any": . under DOTALL, "nonl": . without
\* it, "ws": \s), as few as the rest of the pattern allows.
Lit(tok) == [k |-> "lit", x |-> tok]
Gap(cls) == [k |-> "gap", x |-> cls]

InClass(tok, cls) ==
    CASE cls = "any" -> TRUE
      [] cls = "nonl" -> tok # "NL"
      [] cls = "ws" -> tok \in Whitespace

\* The index after the match of pat[k..] at s[i..], 0 when there is none
RECURSIVE MatchEnd(_, _, _, _)
MatchEnd(s, i, pat, k) ==
    IF k > Len(pat) THEN i
    ELSE IF pat[k].k = "lit"
    THEN IF i <= Len(s) /\ s[i] = pat[k].x THEN MatchEnd(s, i + 1, pat, k + 1) ELSE 0
    ELSE LET r == MatchEnd(s, i, pat, k + 1)
         IN  IF r # 0 THEN r
             ELSE IF i <= Len(s) /\ InClass(s[i], pat[k].x)
             THEN MatchEnd(s, i + 1, pat, k)
             ELSE 0

Matches(pat, s) == \E i \in 1..Len(s) : MatchEnd(s, i, pat, 1) # 0

\* The escapes of a replacement string (re's parse_template).  The patterns
\* here have no groups, so every group reference is an error.
AsciiLetters == {"a", "b", "d", "f", "n", "r", "t", "v", "x"}
OctDigits == {"0", "1", "2", "3", "4", "5", "6", "7"}
EscapeOf(c) ==
    CASE c = "n" -> "NL"
      [] c = "t" -> "TAB"
      [] c = "r" -> "CR"
      [] c = "a" -> "BEL"
      [] c = "b" -> "BSP"
      [] c = "f" -> "FF"
      [] c = "v" -> "VT"
      [] c = "BS" -> "BS"

\* r starts with a backslash: tokens consumed, tokens produced, or bad
Esc(r) ==
    IF Len(r) = 1 THEN [n |-> 1, out |-> <<"BS">>, bad |-> FALSE]
    ELSE LET c == r[2]
             oct(i) == i <= Len(r) /\ r[i] \in OctDigits
         IN  IF c \in {"n", "t", "r", "a", "b", "f", "v", "BS"}
             THEN [n |-> 2, out |-> <<EscapeOf(c)>>, bad |-> FALSE]
             ELSE IF c \in AsciiLetters
             THEN [n |-> 2, out |-> <<>>, bad |-> TRUE]          \* bad escape
             ELSE IF c = "0"
             THEN [n |-> IF oct(3) THEN (IF oct(4) THEN 4 ELSE 3) ELSE 2,
                   out |-> <<"OCT">>, bad |-> FALSE]
             ELSE IF c \in DigitSet
             THEN IF oct(2) /\ oct(3) /\ oct(4)
                  THEN [n |-> 4, out |-> <<"OCT">>, bad |-> r[2] \notin {"1", "2", "3"}]
                  ELSE [n |-> 2, out |-> <<>>, bad |-> TRUE]     \* invalid group reference
             ELSE [n |-> 2, out |-> <<"BS", c>>, bad |-> FALSE]

\* The escapes are taken one after the other, from the left
FirstBs(r) == CHOOSE i \in 1..Len(r) : r[i] = "BS" /\ \A j \in 1..(i - 1) : r[j] # "BS"
From(r, i) == SubSeq(r, i, Len(r))

RECURSIVE ReplBad(_)
ReplBad(r) ==
    IF "BS" \notin Range(r) THEN FALSE
    ELSE LET e == Esc(From(r, FirstBs(r)))
         IN  e.bad \/ ReplBad(From(r, FirstBs(r) + e.n))

RECURSIVE ExpandRepl(_)
ExpandRepl(r) ==
    IF "BS" \notin Range(r) THEN r
    ELSE LET i == FirstBs(r)
             e == Esc(From(r, i))
         IN  SubSeq(r, 1, i - 1) \o e.out \o ExpandRepl(From(r, i + e.n))

\* re.sub(pat, repl, s) with an expanded replacement: every match, left to
\* right, the search going on where the match before ended
MatchStarts(pat, s, i) == {j \in i..Len(s) : MatchEnd(s, j, pat, 1) # 0}
RECURSIVE SubFrom(_, _, _, _)
SubFrom(pat, out, s, i) ==
    IF MatchStarts(pat, s, i) = {} THEN From(s, i)
    ELSE LET j == CHOOSE m \in MatchStarts(pat, s, i) : \A n \in MatchStarts(pat, s, i) : m <= n
         IN  SubSeq(s, i, j - 1) \o out \o SubFrom(pat, out, s, MatchEnd(s, j, pat, 1))

\* re.sub raises re.error for a bad replacement, matched or not
ReSubExc(repl) == IF ReplBad(repl) THEN "re.error" ELSE ""
ReSub(pat, repl, s) == SubFrom(pat, ExpandRepl(repl), s, 1)

\* The seven patterns of generate_html
TitlePat == <<Lit("TITLE_OPEN"), Gap("nonl"), Lit("</th:block>")>>
SitePat == <<Lit("H2_SWITCH_OPEN"), Gap("any"), Lit("</h2>")>>
DatePat == <<Lit("<h3>"), Gap("ws"), Lit("GENERATED_OPEN"), Lit("Date, time"),
             Lit("</th:block>"), Gap("ws"), Lit("</h3>")>>
VersionPat == <<Lit("<h3>"), Gap("ws"), Lit("ZAPVERSION_OPEN"), Lit("ZAP Version"),
                Lit("</th:block>"), Gap("ws"), Lit("</h3>")>>
SummaryPat == <<Lit("IF_ALERTCOUNT"), Gap("any"), Lit("</th:block>")>>
ListPat == <<Lit("IF_INSTANCECOUNT"), Gap("any"), Lit("</th:block>")>>
DetailsPat == <<Lit("IF_ALERTDETAILS"), Gap("any"), Lit("</th:block>")>>

\* ------------------------------------------------- generate_html: data
EmptyStr == JStr(<<>>)

FirstExc(es) ==
    IF \E i \in 1..Len(es) : es[i] # ""
    THEN es[CHOOSE i \in 1..Len(es) : es[i] # "" /\ \A j \in 1..(i - 1) : es[j] = ""]
    ELSE ""

\* site_list[0]'s @name and alerts, '' and [] without a first site dict
HasSite(zap) ==
    /\ Get(zap.d.site, JList(<<>>)).t = "list"
    /\ Len(Get(zap.d.site, JList(<<>>)).l) > 0
ExtractExc(zap) == IF zap.t = "dict" THEN "" ELSE "AttributeError"
ExtractSite(zap) ==
    IF HasSite(zap) /\ zap.d.site.l[1].t = "dict"
    THEN Get(zap.d.site.l[1].d.name, EmptyStr) ELSE EmptyStr
ExtractAlerts(zap) ==
    IF HasSite(zap) /\ zap.d.site.l[1].t = "dict"
    THEN Get(zap.d.site.l[1].d.alerts, JList(<<>>)) ELSE JList(<<>>)

\* What "for x in v" goes through, and the error of a v that is not iterable
IterExc(v) == IF v.t \in {"list", "str"} THEN "" ELSE "TypeError"
IterItems(v) == IF v.t = "list" THEN v.l ELSE [i \in 1..Len(v.s) |-> JStr(<<v.s[i]>>)]

\* int(alert.get('riskcode', '0'))
\* A reading that falls back to risk when riskcode is absent
RiskCodeOrRisk(alert) == Get(alert.d.riskcode, Get(alert.d.risk, JStr(<<"0">>)))
RiskCodeOf(alert) == Get(alert.d.riskcode, JStr(<<"0">>))
RiskExc(alert) == IF alert.t # "dict" THEN "AttributeError" ELSE PyIntExc(RiskCodeOf(alert))
Risk(alert) == PyInt(RiskCodeOf(alert))

\* A filter that keeps severity 0 as well
KeepFromZero(alert) == Risk(alert) >= 0
\* alerts = [alert for alert in all_alerts if int(alert.get('riskcode', '0')) > 0]
Keep(alert) == Risk(alert) > 0
FilterExc(all) ==
    IF IterExc(all) # "" THEN IterExc(all)
    ELSE FirstExc([i \in 1..Len(IterItems(all)) |-> RiskExc(IterItems(all)[i])])
RECURSIVE FilterSeq(_)
FilterSeq(items) ==
    IF items = <<>> THEN <<>>
    ELSE IF Keep(Head(items)) THEN <<Head(items)>> \o FilterSeq(Tail(items))
    ELSE FilterSeq(Tail(items))
FilterAlerts(all) == FilterSeq(IterItems(all))

\* alert_counts: one counter per key of {3: 0, 2: 0, 1: 0}
Counted(risk) == risk \in {1, 2, 3}
CountAlerts(as) ==
    [r \in {1, 2, 3} |-> Cardinality({i \in 1..Len(as) : Counted(Risk(as[i])) /\ Risk(as[i]) = r})]

\* --------------------------------------------- generate_html: fragments
\* Replacement of the site heading
SiteRepl(site) ==
    IF Truthy(site) THEN <<"<h2>", "Site: ">> \o PyStr(site) \o <<"</h2>">>
    ELSE <<"<h2>", "</h2>">>

DateRepl(current_date) == <<"<h3>", "Generated on ">> \o current_date \o <<"</h3>">>

VersionRepl(zap) ==
    <<"<h3>", "ZAP Version: ">> \o PyStr(Get(zap.d.version, JStr(<<"Unknown">>))) \o <<"</h3>">>

\* One summary row; the rows are for High, Medium, Low in that order
SummaryLevels == <<3, 2, 1>>
SummaryRow(level, count) ==
    <<"<tr><td class=\"risk-">> \o IntStr(level) \o <<"\"><div>", get_risk_string(level),
      "</div></td><td><div>">> \o IntStr(count) \o <<"</div></td></tr>">>
SummarySection(counts) ==
    <<"<h3 class=\"left-header\">Summary of Alerts</h3><table class=\"summary\">">>
    \o Flatten([i \in 1..Len(SummaryLevels) |->
                   SummaryRow(SummaryLevels[i], counts[SummaryLevels[i]])])
    \o <<"</table>">>

\* html.escape(alert.get('alert', alert.get('name', 'Unknown Alert')))
NameOf(alert) == Get(alert.d.alert, Get(alert.d.name, JStr(<<"Unknown Alert">>)))
InstancesOf(alert) == Get(alert.d.instances, JList(<<>>))
PluginId(alert) == PyStr(Get(alert.d.pluginid, EmptyStr))
\* a str method (replace, split) or html.escape on a value that is no str
StrExc(v) == IF v.t = "str" THEN "" ELSE "AttributeError"
\* len(v)
LenExc(v) == IF v.t \in {"list", "str"} THEN "" ELSE "TypeError"
PyLen(v) == IF v.t = "list" THEN Len(v.l) ELSE Len(v.s)

\* The part of the loop body the list and the detail loops share
HeadExc(alert) == FirstExc(<<StrExc(NameOf(alert)), LenExc(InstancesOf(alert))>>)

ListRow(alert) ==
    <<"<tr><td><a href=\"#">> \o PluginId(alert) \o <<"\">">>
    \o HtmlEscape(NameOf(alert).s)
    \o <<"</a></td><td class=\"risk-">> \o IntStr(Risk(alert)) \o <<"\">",
         get_risk_string(Risk(alert)), "</td><td align=\"center\">">>
    \o IntStr(PyLen(InstancesOf(alert))) \o <<"</td></tr>">>

\* A list section with its rows in reverse order
AlertListReversed(as) ==
    <<"<h3>", "Alerts", "</h3>", "<table class=\"alerts\">">>
    \o Flatten([i \in 1..Len(as) |-> ListRow(as[Len(as) + 1 - i])])
    \o <<"</table>">>
AlertListExc(as) == FirstExc([i \in 1..Len(as) |-> HeadExc(as[i])])
AlertListSection(as) ==
    <<"<h3>", "Alerts", "</h3>", "<table class=\"alerts\">">>
    \o Flatten([i \in 1..Len(as) |-> ListRow(as[i])])
    \o <<"</table>">>

\* cweid_int = int(cweid) if cweid and str(cweid).isdigit() else 0
IdGuard(v) == Truthy(v) /\ IsDigit(PyStr(v))
IdExc(v) == IF IdGuard(v) THEN PyIntExc(v) ELSE ""
IdInt(v) == IF IdGuard(v) THEN PyInt(v) ELSE 0
\* A guard that shows the id 0 as well
ShowIdFromZero(n) == n >= 0
ShowId(n) == n > 0
CweHtml(n) ==
    IF ShowId(n)
    THEN <<"<a href=\"https://cwe.mitre.org/data/definitions/">> \o IntStr(n)
         \o <<".html\">">> \o IntStr(n) \o <<"</a>">>
    ELSE <<>>
WascHtml(n) == IF ShowId(n) THEN IntStr(n) ELSE <<>>

\* '<br>'.join(<a href=ref>ref</a> for ref in reference.split('\n') if ref.strip())
RECURSIVE JoinBr(_)
JoinBr(parts) ==
    IF parts = <<>> THEN <<>>
    ELSE IF Len(parts) = 1 THEN Head(parts)
    ELSE Head(parts) \o <<"<br>">> \o JoinBr(Tail(parts))
RefLink(ref) == <<"<a href=\"">> \o ref \o <<"\">">> \o ref \o <<"</a>">>
RECURSIVE RefLinks(_)
RefLinks(refs) ==
    IF refs = <<>> THEN <<>>
    ELSE IF Strip(Head(refs)) # <<>> THEN <<RefLink(Head(refs))>> \o RefLinks(Tail(refs))
    ELSE RefLinks(Tail(refs))
ReferencesHtml(reference) == JoinBr(RefLinks(SplitNl(reference, <<>>)))

\* One instance's rows: every field through html.escape
InstanceFields == <<"uri", "method", "param", "attack", "evidence", "otherinfo">>
InstanceExc(inst) ==
    IF inst.t # "dict" THEN "AttributeError"
    ELSE FirstExc([i \in 1..Len(InstanceFields) |->
                      StrExc(Get(inst.d[InstanceFields[i]], EmptyStr))])
Field(inst, f) == HtmlEscape(Get(inst.d[f], EmptyStr).s)
InstanceHtml(inst) ==
    <<"<tr><td>URL</td><td><a href=\"">> \o Field(inst, "uri") \o <<"\">">>
    \o Field(inst, "uri") \o <<"</a></td></tr>", "<tr><td>Method</td><td>">>
    \o Field(inst, "method") \o <<"</td></tr>", "<tr><td>Parameter</td><td>">>
    \o Field(inst, "param") \o <<"</td></tr>", "<tr><td>Attack</td><td>">>
    \o Field(inst, "attack") \o <<"</td></tr>", "<tr><td>Evidence</td><td>">>
    \o Field(inst, "evidence") \o <<"</td></tr>", "<tr><td>Other Info</td><td>">>
    \o Field(inst, "otherinfo") \o <<"</td></tr>">>

InstancesExc(alert) ==
    FirstExc([i \in 1..PyLen(InstancesOf(alert)) |->
                 InstanceExc(IterItems(InstancesOf(alert))[i])])
\* The exception of one pass of the detail loop, in statement order
DetailExc(alert) ==
    IF HeadExc(alert) # "" THEN HeadExc(alert)
    ELSE FirstExc(<<StrExc(Get(alert.d.desc, EmptyStr)),
                    StrExc(Get(alert.d.solution, EmptyStr)),
                    StrExc(Get(alert.d.reference, EmptyStr)),
                    IdExc(Get(alert.d.cweid, EmptyStr)),
                    IdExc(Get(alert.d.wascid, EmptyStr)),
                    InstancesExc(alert)>>)

DetailBlock(alert) ==
    LET insts == IterItems(InstancesOf(alert)) IN
    <<"<table class=\"results\"><tr><th class=\"risk-">> \o IntStr(Risk(alert))
    \o <<"\"><a id=\"">> \o PluginId(alert) \o <<"\"></a><div>", get_risk_string(Risk(alert)),
         "</div></th><th>">>
    \o HtmlEscape(NameOf(alert).s) \o <<"</th></tr>", "<tr><td>Description</td><td>">>
    \o NlToBr(Get(alert.d.desc, EmptyStr).s) \o <<"</td></tr>">>
    \o Flatten([i \in 1..Len(insts) |-> InstanceHtml(insts[i])])
    \o <<"<tr><td>Instances</td><td>">> \o IntStr(PyLen(InstancesOf(alert)))
    \o <<"</td></tr>", "<tr><td>Solution</td><td>">>
    \o NlToBr(Get(alert.d.solution, EmptyStr).s) \o <<"</td></tr>", "<tr><td>Reference</td><td>">>
    \o ReferencesHtml(Get(alert.d.reference, EmptyStr).s)
    \o <<"</td></tr>", "<tr><td>CWE Id</td><td>">>
    \o CweHtml(IdInt(Get(alert.d.cweid, EmptyStr)))
    \o <<"</td></tr>", "<tr><td>WASC Id</td><td>">>
    \o WascHtml(IdInt(Get(alert.d.wascid, EmptyStr)))
    \o <<"</td></tr>", "<tr><td>Plugin Id</td><td><a href=\"https://www.zaproxy.org/docs/alerts/">>
    \o PluginId(alert) \o <<"/\">">> \o PluginId(alert) \o <<"</a></td></tr></table>">>

AlertDetailsExc(as) == FirstExc([i \in 1..Len(as) |-> DetailExc(as[i])])
AlertDetailsSection(as) ==
    <<"<h3>", "Alert Detail", "</h3>">> \o Flatten([i \in 1..Len(as) |-> DetailBlock(as[i])])

\* ----------------------------------------------------------------- inputs
\* A template with the four inline placeholders and the three blocks
TitleSeg == <<"TITLE_OPEN", "Title", "</th:block>">>
SiteSeg == <<"H2_SWITCH_OPEN", "NL", "Site", "</h2>">>
DateSeg == <<"<h3>", "GENERATED_OPEN", "Date, time", "</th:block>", "</h3>">>
VersionSeg == <<"<h3>", "NL", "ZAPVERSION_OPEN", "ZAP Version", "</th:block>", " ", "</h3>">>
SummarySeg == <<"IF_ALERTCOUNT", "NL", "summary", "</th:block>">>
ListSeg == <<"IF_INSTANCECOUNT", "list", "</th:block>">>
DetailsSeg == <<"IF_ALERTDETAILS", "details", "NL", "</th:block>">>
FullTemplate ==
    <<"<html>">> \o TitleSeg \o SiteSeg \o DateSeg \o VersionSeg \o <<"<hr>">>
    \o SummarySeg \o ListSeg \o DetailsSeg \o <<"</html>">>

DefaultInstance ==
    JDict([uri |-> JStr(<<"u">>), method |-> JStr(<<"G">>), param |-> JStr(<<"p">>),
           attack |-> EmptyStr, evidence |-> JStr(<<"e">>), otherinfo |-> Absent])
DefaultAlert ==
    JDict([riskcode |-> JStr(<<"3">>), risk |-> Absent, pluginid |-> JStr(<<"4", "0">>),
           alert |-> JStr(<<"X", "S", "S">>), name |-> Absent, desc |-> JStr(<<"D">>),
           solution |-> JStr(<<"S">>), reference |-> JStr(<<"R">>),
           cweid |-> JStr(<<"7", "9">>), wascid |-> JStr(<<"8">>),
           instances |-> JList(<<DefaultInstance>>)])
With(dict, key, value) == JDict([dict.d EXCEPT ![key] = value])

Report(name, alertsValue, version) ==
    JDict([site |-> JList(<<JDict([name |-> name, alerts |-> alertsValue])>>),
           version |-> version])
DefaultName == JStr(<<"h", "o", "s", "t">>)
DefaultVersion == JStr(<<"2", ".", "1", "4">>)
OneAlert(alert) == Report(DefaultName, JList(<<alert>>), DefaultVersion)
DefaultReport == OneAlert(DefaultAlert)

\* Severity family: up to MaxAlerts alerts, each with a riskcode/risk pair and
\* the plugin id of its place in the list
RiskPairs ==
    {<<JStr(<<c>>), Absent>> : c \in {"0", "1", "2", "3", "4"}}
    \cup {<<Absent, JStr(<<"3">>)>>, <<Absent, Absent>>, <<JInt(2), Absent>>,
          <<JStr(<<"-", "1">>), Absent>>, <<JStr(<<"0">>), JStr(<<"3">>)>>,
          <<JStr(<<"1">>), JStr(<<"3">>)>>}
NInstances(n) == JList([i \in 1..n |-> DefaultInstance])
Numbered(kinds) ==
    [i \in 1..Len(kinds) |-> With(kinds[i], "pluginid", JStr(<<"4", Digits[i + 1]>>))]
SeverityKinds ==
    {With(With(DefaultAlert, "riskcode", p[1]), "risk", p[2]) : p \in RiskPairs}
SeverityReports ==
    {Report(DefaultName, JList(Numbered(ks)), DefaultVersion) :
         ks \in SeqsUpTo(SeverityKinds, MaxAlerts)}

\* Instance family: up to MaxListed alerts of severity 0 or 2 with 0..MaxInst instances
InstanceKinds ==
    {With(With(DefaultAlert, "riskcode", JStr(<<c>>)), "instances", NInstances(n)) :
         c \in {"0", "2"}, n \in 0..MaxInst}
InstanceReports ==
    {Report(DefaultName, JList(Numbered(ks)), DefaultVersion) :
         ks \in SeqsUpTo(InstanceKinds, MaxListed)}

\* Id family: one alert whose cweid, or wascid, is any short string or a number
IdChars == {"0", "7", "+", "-", " ", "_", "SUP2", "a"}
IdValues ==
    {JStr(s) : s \in SeqsUpTo(IdChars, MaxIdLen)}
    \cup {JInt(79), JInt(0), JInt(-1), JNull, Absent}
IdReports ==
    {OneAlert(With(DefaultAlert, k, v)) : k \in {"cweid", "wascid"}, v \in IdValues}

\* Text family: one field of the report is any short string of characters that
\* html.escape or a replacement string treats specially
TextChars == {"<", "&", "BS", "n", "d", "NL"}
TextValues == {JStr(s) : s \in SeqsUpTo(TextChars, MaxTextLen)}
AlertTextFields == {"pluginid", "alert", "desc", "solution", "reference"}
TextReports ==
    {OneAlert(With(DefaultAlert, k, v)) : k \in AlertTextFields, v \in TextValues}
    \cup {OneAlert(With(DefaultAlert, "instances", JList(<<With(DefaultInstance, k, v)>>))) :
              k \in Range(InstanceFields), v \in TextValues}
    \cup {Report(v, JList(<<DefaultAlert>>), DefaultVersion) : v \in TextValues}
    \cup {Report(DefaultName, JList(<<DefaultAlert>>), v) : v \in TextValues}

\* Shape family: missing and ill-typed parts
ShapeReports ==
    {JDict([site |-> Absent, version |-> Absent]),
     JDict([site |-> JList(<<>>), version |-> JNull]),
     JDict([site |-> JNull, version |-> JInt(2)]),
     JDict([site |-> JList(<<JStr(<<"x">>)>>), version |-> DefaultVersion]),
     JList(<<>>),
     Report(Absent, Absent, DefaultVersion),
     Report(JNull, JList(<<>>), DefaultVersion),
     Report(JInt(5), JList(<<DefaultAlert>>), DefaultVersion),
     Report(DefaultName, JNull, DefaultVersion),
     Report(DefaultName, EmptyStr, DefaultVersion),
     Report(DefaultName, JStr(<<"x">>), DefaultVersion),
     Report(DefaultName, JList(<<JStr(<<"x">>)>>), DefaultVersion)}
    \cup {OneAlert(With(DefaultAlert, k, v)) :
              k \in {"riskcode", "pluginid", "alert", "desc", "solution", "reference",
                     "instances"},
              v \in {Absent, JNull, JInt(7), EmptyStr, JStr(<<"h", "i">>)}}
    \cup {OneAlert(With(DefaultAlert, "instances", v)) :
              v \in {JList(<<>>), JList(<<JNull>>),
                     JList(<<With(DefaultInstance, "uri", Absent)>>),
                     JList(<<With(DefaultInstance, "evidence", JNull)>>)}}

\* Template family: up to MaxTplSegs segments, each a placeholder, a broken
\* placeholder or plain text; a block that precedes an inline placeholder
\* encloses it up to the placeholder's own closing tag
TemplateSegs ==
    {<<"plain">>, TitleSeg, <<"TITLE_OPEN", "NL", "</th:block>">>, SiteSeg, DateSeg,
     VersionSeg, SummarySeg, ListSeg, DetailsSeg, <<"IF_ALERTCOUNT">>,
     <<"IF_ALERTCOUNT">> \o VersionSeg \o <<"</th:block>">>}
Templates == {Flatten(segs) : segs \in SeqsUpTo(TemplateSegs, MaxTplSegs)}
TemplateReports ==
    {DefaultReport,
     Report(JStr(<<"a", "BS", "n">>), JList(<<DefaultAlert>>),
            JStr(<<"IF_ALERTCOUNT", "v", "</th:block>">>)),
     Report(DefaultName, JList(<<>>), JStr(<<"BS", "d">>))}

\* What a run finds: arguments, files, clock
OkRun(tpl, report) ==
    [argc |-> 4, tpl |-> [exists |-> TRUE, text |-> tpl],
     json |-> [state |-> "ok", data |-> report],
     out |-> [exists |-> FALSE, text |-> <<>>], writable |-> TRUE]
DataRuns ==
    {OkRun(FullTemplate, r) :
         r \in SeverityReports \cup InstanceReports \cup IdReports \cup TextReports
               \cup ShapeReports}
TemplateRuns == {OkRun(t, r) : t \in Templates, r \in TemplateReports}
EnvRuns ==
    [argc : {1, 3, 4, 5},
     tpl : {[exists |-> e, text |-> IF e THEN FullTemplate ELSE <<>>] : e \in BOOLEAN},
     json : {[state |-> st, data |-> IF st = "ok" THEN d ELSE JNull] :
                 st \in {"missing", "invalid", "ok"},
                 d \in {DefaultReport, OneAlert(With(DefaultAlert, "riskcode", JStr(<<"h", "i">>)))}},
     out : {[exists |-> FALSE, text |-> <<>>], [exists |-> TRUE, text |-> <<"old">>]},
     writable : BOOLEAN]
Runs == DataRuns \cup TemplateRuns \cup EnvRuns

\* ------------------------------------------------------------------ state
VARIABLES
    argc,           \* len(sys.argv)
    tpl_file,       \* the file at template_path: [exists, text]
    json_file,      \* the file at json_path: [state, data]
    out_file,       \* the file at output_path: [exists, text]
    out_before,     \* out_file as the run found it
    out_writable,   \* whether open(output_path, 'w') succeeds
    current_date,   \* datetime.now(), formatted
    pc,             \* the statement main() or generate_html() is at
    exit_status,    \* -1 while running, then the process's exit status
    exc,            \* the uncaught exception, "" when none
    stdout,         \* what was printed
    log,            \* the calls of main() that returned, in order
    template, zap_data, html_output,                        \* locals of main()
    site, all_alerts, alerts, alert_counts, result_html     \* locals of generate_html()

env == <<argc, tpl_file, json_file, out_before, out_writable, current_date>>
mainLocals == <<template, zap_data, html_output>>
genLocals == <<site, all_alerts, alerts, alert_counts, result_html>>
vars == <<env, out_file, pc, exit_status, exc, stdout, log, mainLocals, genLocals>>

\* An uncaught exception ends the process with a traceback and status 1
Raise(e) ==
    /\ exc' = e
    /\ exit_status' = 1
    /\ pc' = "exit"

Goto(label) ==
    /\ pc' = label
    /\ UNCHANGED <<exit_status, exc>>

\* ------------------------------------------------------------------- main
\* An argument check that lets extra arguments through
ArgsAtLeast(n) == n >= 4
\* if len(sys.argv) != 4: print usage, sys.exit(1)
ArgsOk(n) == n = 4
CheckArgs ==
    /\ pc = "start"
    /\ IF ArgsOk(argc)
       THEN Goto("load_template") /\ UNCHANGED stdout
       ELSE /\ stdout' = Append(stdout, "Usage")
            /\ exit_status' = 1
            /\ pc' = "exit"
            /\ UNCHANGED exc
    /\ UNCHANGED <<env, out_file, log, mainLocals, genLocals>>

TemplateLoadExc(file) == IF file.exists THEN "" ELSE "FileNotFoundError"
LoadTemplate ==
    /\ pc = "load_template"
    /\ IF TemplateLoadExc(tpl_file) # ""
       THEN Raise(TemplateLoadExc(tpl_file)) /\ UNCHANGED <<template, log>>
       ELSE /\ template' = tpl_file.text
            /\ log' = Append(log, "load_template")
            /\ Goto("load_zap_json")
    /\ UNCHANGED <<env, out_file, stdout, zap_data, html_output, genLocals>>

JsonLoadExc(file) ==
    CASE file.state = "missing" -> "FileNotFoundError"
      [] file.state = "invalid" -> "JSONDecodeError"
      [] OTHER -> ""
LoadZapJson ==
    /\ pc = "load_zap_json"
    /\ IF JsonLoadExc(json_file) # ""
       THEN Raise(JsonLoadExc(json_file)) /\ UNCHANGED <<zap_data, log>>
       ELSE /\ zap_data' = json_file.data
            /\ log' = Append(log, "load_zap_json")
            /\ Goto("gen_extract")
    /\ UNCHANGED <<env, out_file, stdout, template, html_output, genLocals>>

\* ---------------------------------------------------------- generate_html
GenFrame == UNCHANGED <<env, out_file, stdout, log, mainLocals>>

\* lines 33-40
GenExtract ==
    /\ pc = "gen_extract"
    /\ IF ExtractExc(zap_data) # ""
       THEN Raise(ExtractExc(zap_data)) /\ UNCHANGED <<site, all_alerts>>
       ELSE /\ site' = ExtractSite(zap_data)
            /\ all_alerts' = ExtractAlerts(zap_data)
            /\ Goto("gen_filter")
    /\ UNCHANGED <<alerts, alert_counts, result_html>>
    /\ GenFrame

\* line 44
GenFilter ==
    /\ pc = "gen_filter"
    /\ IF FilterExc(all_alerts) # ""
       THEN Raise(FilterExc(all_alerts)) /\ UNCHANGED alerts
       ELSE alerts' = FilterAlerts(all_alerts) /\ Goto("gen_count")
    /\ UNCHANGED <<site, all_alerts, alert_counts, result_html>>
    /\ GenFrame

\* lines 47-56
GenCount ==
    /\ pc = "gen_count"
    /\ alert_counts' = CountAlerts(alerts)
    /\ result_html' = template
    /\ Goto("gen_title")
    /\ UNCHANGED <<site, all_alerts, alerts>>
    /\ GenFrame

\* One re.sub of result_html, then on to the next statement
Substitute(pat, repl, next) ==
    /\ IF ReSubExc(repl) # ""
       THEN Raise(ReSubExc(repl)) /\ UNCHANGED result_html
       ELSE result_html' = ReSub(pat, repl, result_html) /\ Goto(next)
    /\ UNCHANGED <<site, all_alerts, alerts, alert_counts>>
    /\ GenFrame

\* line 59
GenTitle == pc = "gen_title" /\ Substitute(TitlePat, <<"ZAP Scanning Report">>, "gen_site")
\* lines 62-68
GenSite == pc = "gen_site" /\ Substitute(SitePat, SiteRepl(site), "gen_date")
\* lines 71-76
GenDate == pc = "gen_date" /\ Substitute(DatePat, DateRepl(current_date), "gen_version")
\* lines 79-84
GenVersion == pc = "gen_version" /\ Substitute(VersionPat, VersionRepl(zap_data), "gen_summary")
\* lines 87-119
GenSummary ==
    pc = "gen_summary" /\ Substitute(SummaryPat, SummarySection(alert_counts), "gen_list")
\* lines 122-156
GenList ==
    /\ pc = "gen_list"
    /\ IF AlertListExc(alerts) # ""
       THEN /\ Raise(AlertListExc(alerts))
            /\ UNCHANGED <<genLocals>> /\ GenFrame
       ELSE Substitute(ListPat, AlertListSection(alerts), "gen_details")
\* lines 159-270: the last substitution and the return to main()
GenDetails ==
    /\ pc = "gen_details"
    /\ IF AlertDetailsExc(alerts) # ""
       THEN Raise(AlertDetailsExc(alerts)) /\ UNCHANGED <<result_html, html_output, log>>
       ELSE IF ReSubExc(AlertDetailsSection(alerts)) # ""
       THEN Raise(ReSubExc(AlertDetailsSection(alerts)))
            /\ UNCHANGED <<result_html, html_output, log>>
       ELSE /\ result_html' = ReSub(DetailsPat, AlertDetailsSection(alerts), result_html)
            /\ html_output' = result_html'
            /\ log' = Append(log, "generate_html")
            /\ Goto("open_output")
    /\ UNCHANGED <<env, out_file, stdout, template, zap_data>>
    /\ UNCHANGED <<site, all_alerts, alerts, alert_counts>>

\* ------------------------------------------------------- main, continued
\* with open(output_path, 'w', encoding='utf-8') as f: creates or truncates
OpenOutput ==
    /\ pc = "open_output"
    /\ IF out_writable
       THEN /\ out_file' = [exists |-> TRUE, text |-> <<>>]
            /\ log' = Append(log, "open")
            /\ Goto("write_output")
       ELSE Raise("PermissionError") /\ UNCHANGED <<out_file, log>>
    /\ UNCHANGED <<env, stdout, mainLocals, genLocals>>

\* f.write(html_output), and the file closed
WriteOutput ==
    /\ pc = "write_output"
    /\ out_file' = [exists |-> TRUE, text |-> html_output]
    /\ log' = Append(log, "write")
    /\ Goto("print_ok")
    /\ UNCHANGED <<env, stdout, mainLocals, genLocals>>

\* print("Report generated successfully: ..."), and main() returns
PrintOk ==
    /\ pc = "print_ok"
    /\ stdout' = Append(stdout, "Report generated successfully")
    /\ exit_status' = 0
    /\ pc' = "exit"
    /\ UNCHANGED <<env, out_file, exc, log, mainLocals, genLocals>>

Init ==
    /\ \E run \in Runs :
          /\ argc = run.argc
          /\ tpl_file = run.tpl
          /\ json_file = run.json
          /\ out_file = run.out
          /\ out_before = run.out
          /\ out_writable = run.writable
    /\ current_date = <<"Mon, 02 Nov 2026 13:18:00">>
    /\ pc = "start"
    /\ exit_status = -1
    /\ exc = ""
    /\ stdout = <<>>
    /\ log = <<>>
    /\ template = <<>>
    /\ zap_data = JNull
    /\ html_output = <<>>
    /\ site = EmptyStr
    /\ all_alerts = JList(<<>>)
    /\ alerts = <<>>
    /\ alert_counts = [r \in {1, 2, 3} |-> 0]
    /\ result_html = <<>>

Next ==
    \/ CheckArgs
    \/ LoadTemplate
    \/ LoadZapJson
    \/ GenExtract
    \/ GenFilter
    \/ GenCount
    \/ GenTitle
    \/ GenSite
    \/ GenDate
    \/ GenVersion
    \/ GenSummary
    \/ GenList
    \/ GenDetails
    \/ OpenOutput
    \/ WriteOutput
    \/ PrintOk

Spec == Init /\ [][Next]_vars

\* ----------------------------------------------------------------------
\* Reading the output back: the tables and cells of a rendered report
\* ----------------------------------------------------------------------
Find(s, i, tok) ==
    IF \E j \in i..Len(s) : s[j] = tok
    THEN CHOOSE j \in i..Len(s) : s[j] = tok /\ \A k \in i..(j - 1) : s[k] # tok
    ELSE Len(s) + 1
Sorted(P) == [k \in 1..Cardinality(P) |-> CHOOSE i \in P : Cardinality({j \in P : j < i}) = k - 1]
Occurrences(s, tok) == Sorted({i \in 1..Len(s) : s[i] = tok})
Between(s, i, tok) == SubSeq(s, i + 1, Find(s, i + 1, tok) - 1)
Regions(s, open, close) ==
    [k \in 1..Len(Occurrences(s, open)) |->
        SubSeq(s, Occurrences(s, open)[k], Find(s, Occurrences(s, open)[k], close))]

SummaryTables(s) ==
    Regions(s, "<h3 class=\"left-header\">Summary of Alerts</h3><table class=\"summary\">",
            "</table>")
SummaryRowAt(t, p) ==
    [level |-> Between(t, p, "\"><div>"),
     label |-> t[Find(t, p, "\"><div>") + 1],
     count |-> DigitsValue(Between(t, Find(t, p, "</div></td><td><div>"), "</div></td></tr>"), 0)]
SummaryRows(t) ==
    [k \in 1..Len(Occurrences(t, "<tr><td class=\"risk-")) |->
        SummaryRowAt(t, Occurrences(t, "<tr><td class=\"risk-")[k])]

ListTables(s) == Regions(s, "<table class=\"alerts\">", "</table>")
ListRowAt(t, p) ==
    LET q == Find(t, p, "</a></td><td class=\"risk-")
        r == Find(t, q, "\">")
        c == Find(t, r, "</td><td align=\"center\">")
    IN  [id |-> Between(t, p, "\">"),
         name |-> SubSeq(t, Find(t, p, "\">") + 1, q - 1),
         label |-> t[r + 1],
         count |-> DigitsValue(Between(t, c, "</td></tr>"), 0)]
ListRows(t) ==
    [k \in 1..Len(Occurrences(t, "<tr><td><a href=\"#")) |->
        ListRowAt(t, Occurrences(t, "<tr><td><a href=\"#")[k])]

\* A detail section runs from its heading to the next one, or to the end
DetailSections(s) ==
    LET P == Occurrences(s, "Alert Detail")
    IN  [k \in 1..Len(P) |-> SubSeq(s, P[k], IF k < Len(P) THEN P[k + 1] - 1 ELSE Len(s))]
DetailBlocks(sec) ==
    Regions(sec, "<table class=\"results\"><tr><th class=\"risk-", "</a></td></tr></table>")
Cell(b, marker) == Between(b, Find(b, 1, marker), "</td></tr>")
BlockId(b) == Between(b, Find(b, 1, "\"><a id=\""), "\"></a><div>")
BlockLabel(b) == b[Find(b, 1, "\"></a><div>") + 1]
BlockCount(b) == DigitsValue(Cell(b, "<tr><td>Instances</td><td>"), 0)
InstanceStarts(b) == Occurrences(b, "<tr><td>URL</td><td><a href=\"")
\* The cell of field f of the instance that starts at p
InstanceCell(b, p, f) ==
    CASE f = "uri" -> Between(b, p, "\">")
      [] f = "method" -> Between(b, Find(b, p, "<tr><td>Method</td><td>"), "</td></tr>")
      [] f = "param" -> Between(b, Find(b, p, "<tr><td>Parameter</td><td>"), "</td></tr>")
      [] f = "attack" -> Between(b, Find(b, p, "<tr><td>Attack</td><td>"), "</td></tr>")
      [] f = "evidence" -> Between(b, Find(b, p, "<tr><td>Evidence</td><td>"), "</td></tr>")
      [] f = "otherinfo" -> Between(b, Find(b, p, "<tr><td>Other Info</td><td>"), "</td></tr>")
UriText(b, p) == Between(b, Find(b, p, "\">"), "</a></td></tr>")

\* ----------------------------------------------------------------------
\* The claims
\* ----------------------------------------------------------------------
\* generate_html returned: result_html is its result
Returned == "generate_html" \in Range(log)
\* generate_html was entered and raised
GenRaised == pc = "exit" /\ "load_zap_json" \in Range(log) /\ ~Returned

\* The input as the claims describe it: the alerts of the first site, the
\* severity of one (its riskcode, 0 when it has none), the label of a severity
InputAlerts == IterItems(all_alerts)
ClaimSeverity(a) == IF a.d.riskcode.t = "absent" THEN 0 ELSE PyInt(a.d.riskcode)
ClaimLabel(sev) ==
    CASE sev = 3 -> "High" [] sev = 2 -> "Medium" [] sev = 1 -> "Low" [] OTHER -> "Unknown"
IsRendered(a) == ClaimSeverity(a) > 0
Rendered == SelectSeq(InputAlerts, IsRendered)
IdText(a) == PyStr(Get(a.d.pluginid, EmptyStr))
InstanceCount(a) == IF a.d.instances.t = "absent" THEN 0 ELSE PyLen(a.d.instances)
Plain(text) == "BS" \notin Range(text)

\* ----------------------------------------------------------------------
\* C1: an alert of the first site whose severity code is 0 has no row in any
\* alert list table and no block in any alert detail section of the returned
\* HTML, and each summary count is the number of input alerts of exactly that
\* severity, so that it is counted under none of High, Medium, Low.
C1_SeverityZeroExcluded ==
    Returned =>
        /\ \A i \in 1..Len(InputAlerts) :
              ClaimSeverity(InputAlerts[i]) = 0 =>
                 /\ \A t \in Range(ListTables(result_html)) :
                       \A row \in Range(ListRows(t)) : row.id # IdText(InputAlerts[i])
                 /\ \A d \in Range(DetailSections(result_html)) :
                       \A b \in Range(DetailBlocks(d)) : BlockId(b) # IdText(InputAlerts[i])
        /\ \A t \in Range(SummaryTables(result_html)) :
              \A row \in Range(SummaryRows(t)) :
                 row.count = Cardinality({i \in 1..Len(InputAlerts) :
                                 ClaimSeverity(InputAlerts[i]) = DigitsValue(row.level, 0)})

C1_Witness ==
    /\ Returned
    /\ \E i, j \in 1..Len(InputAlerts) :
          ClaimSeverity(InputAlerts[i]) = 0 /\ ClaimSeverity(InputAlerts[j]) = 3
    /\ Len(SummaryTables(result_html)) = 1
    /\ Len(ListTables(result_html)) = 1
    /\ Len(DetailSections(result_html)) = 1

\* The three counts of a summary table, added up
SumOfCounts(t) ==
    SummaryRows(t)[1].count + SummaryRows(t)[2].count + SummaryRows(t)[3].count
\* C2: in every summary table of the returned HTML the High, Medium and Low
\* counts add up to the number of alerts of the first site whose severity
\* code is greater than 0, which is the number of rows of every list table.
C2_CountsSumToFiltered ==
    Returned =>
        \A t \in Range(SummaryTables(result_html)) :
           /\ SumOfCounts(t) = Len(Rendered)
           /\ \A l \in Range(ListTables(result_html)) : SumOfCounts(t) = Len(ListRows(l))

\* A numeral of positive value as the id guard reads one: decimal digits
\* only (or a JSON integer); Numeral is its text as the code prints it
ParsesPositive(v) ==
    \/ v.t = "int" /\ v.n > 0
    \/ /\ v.t = "str"
       /\ v.s # <<>>
       /\ \A i \in 1..Len(v.s) : v.s[i] \in DigitSet
       /\ DigitsValue(v.s, 0) > 0
Numeral(v) == IntStr(IF v.t = "int" THEN v.n ELSE DigitsValue(v.s, 0))
Aborted ==
    \/ argc # 4
    \/ ~tpl_file.exists
    \/ json_file.state # "ok"
    \/ GenRaised
\* C4: the output file is touched only once load_template, load_zap_json and
\* generate_html have returned, in that order; a run that ends on a wrong
\* argument count, an unreadable template, a missing or invalid JSON file or
\* an exception of generate_html leaves the output file as it found it and
\* ends with a non-zero exit status.
C4_NoOutputUnlessRendered ==
    /\ out_file # out_before =>
          /\ Len(log) >= 4
          /\ SubSeq(log, 1, 4) = <<"load_template", "load_zap_json", "generate_html", "open">>
    /\ (pc = "exit" /\ Aborted) =>
          /\ out_file = out_before
          /\ exit_status > 0
          /\ "open" \notin Range(log)

C4_Witness ==
    /\ pc = "exit"
    /\ GenRaised
    /\ out_before.exists
    /\ out_writable
    /\ out_file = out_before
    /\ exit_status = 1

\* A report whose containers have the documented shape (lists of objects),
\* every other part free to be absent or malformed
ListOfDicts(v) == v.t = "list" /\ \A i \in 1..Len(v.l) : v.l[i].t = "dict"
OptionalPartsOnly(report) ==
    /\ report.t = "dict"
    /\ report.d.site.t = "absent" \/ ListOfDicts(report.d.site)
    /\ ListOfDicts(report.d.site) =>
          \A i \in 1..Len(report.d.site.l) :
             LET as == report.d.site.l[i].d.alerts
             IN  /\ as.t = "absent" \/ ListOfDicts(as)
                 /\ ListOfDicts(as) =>
                       \A k \in 1..Len(as.l) :
                          \/ as.l[k].d.instances.t = "absent"
                          \/ ListOfDicts(as.l[k].d.instances)
\* C5: generate_html never raises on a report whose optional parts are
\* missing or malformed (site list, alerts list or instances absent, any
\* field of an alert or instance absent or of an unexpected form).
C5_NeverFails ==
    (json_file.state = "ok" /\ OptionalPartsOnly(json_file.data)) => ~GenRaised

\* The character an escaped token stands for; a cell that is the escaped
\* form of a text; a cell that is a text with <br> for each newline
Unescaped(c) ==
    CASE c = "&amp;" -> "&"
      [] c = "&lt;" -> "<"
      [] c = "&gt;" -> ">"
      [] c = "&quot;" -> "QUOT"
      [] c = "&#x27;" -> "APOS"
      [] OTHER -> c
IsEscapedFormOf(cell, text) ==
    /\ Len(cell) = Len(text)
    /\ \A i \in 1..Len(cell) :
          cell[i] \notin {"&", "<", ">", "QUOT", "APOS"} /\ Unescaped(cell[i]) = text[i]
IsWithBreaks(cell, text) ==
    /\ Len(cell) = Len(text)
    /\ \A i \in 1..Len(cell) : cell[i] = IF text[i] = "NL" THEN "<br>" ELSE text[i]
TextOf(v) == IF v.t = "absent" THEN <<>> ELSE v.s
\* C6: in the detail block of every filtered alert each instance field (uri,
\* method, param, attack, evidence, otherinfo) stands in HTML-escaped form
\* (no raw markup character, and the field itself once unescaped), and the
\* description and solution stand as given, but for <br> in place of each
\* newline.
C6_EscapingPolicy ==
    Returned =>
        \A d \in Range(DetailSections(result_html)) :
           \A k \in 1..Len(DetailBlocks(d)) :
              k <= Len(Rendered) =>
                 LET a == Rendered[k]
                     b == DetailBlocks(d)[k]
                 IN  /\ IsWithBreaks(Cell(b, "<tr><td>Description</td><td>"), TextOf(a.d.desc))
                     /\ IsWithBreaks(Cell(b, "<tr><td>Solution</td><td>"), TextOf(a.d.solution))
                     /\ \A j \in 1..Len(InstanceStarts(b)) :
                           j <= InstanceCount(a) =>
                              /\ \A f \in Range(InstanceFields) :
                                    IsEscapedFormOf(InstanceCell(b, InstanceStarts(b)[j], f),
                                                    TextOf(a.d.instances.l[j].d[f]))
                              /\ IsEscapedFormOf(UriText(b, InstanceStarts(b)[j]),
                                                 TextOf(a.d.instances.l[j].d.uri))

\* A template in which none of the seven patterns matches
Patterns == {TitlePat, SitePat, DatePat, VersionPat, SummaryPat, ListPat, DetailsPat}
NoPlaceholder(tpl) == \A pat \in Patterns : ~Matches(pat, tpl)
\* C7: for a template that matches none of the seven patterns, generate_html
\* returns, and returns the template, whatever the report.
C7_UnmatchedUnchanged ==
    (pc = "exit" /\ "load_zap_json" \in Range(log) /\ NoPlaceholder(template)) =>
        (Returned /\ html_output = template)

\* An alert of the earlier schema: no riskcode, risk a severity above 0
HasRiskOnly(a) ==
    /\ a.d.riskcode.t = "absent"
    /\ a.d.risk.t # "absent"
    /\ PyIntExc(a.d.risk) = ""
    /\ PyInt(a.d.risk) > 0
\* C8 as stated: an alert without riskcode whose risk is a severity greater
\* than 0 has a row with that severity's label in every alert list table.
C8_RiskFallback ==
    Returned =>
        \A i \in 1..Len(InputAlerts) :
           HasRiskOnly(InputAlerts[i]) =>
              \A t \in Range(ListTables(result_html)) :
                 \E row \in Range(ListRows(t)) :
                    /\ row.id = IdText(InputAlerts[i])
                    /\ row.label = ClaimLabel(PyInt(InputAlerts[i].d.risk))

\* C8 amended: the severity is read from riskcode alone.  An alert that has
\* a risk field is rendered as its riskcode says: with no riskcode, or a
\* riskcode of 0 or less, it has no list row and no detail block whatever
\* its risk; with a riskcode greater than 0 it has a row with the label of
\* the riskcode in every list table.
C8_RiskcodeOnly ==
    Returned =>
        \A i \in 1..Len(InputAlerts) :
           LET a == InputAlerts[i] IN
           a.d.risk.t # "absent" =>
              IF a.d.riskcode.t = "absent" \/ PyInt(a.d.riskcode) <= 0
              THEN /\ \A t \in Range(ListTables(result_html)) :
                         \A row \in Range(ListRows(t)) : row.id # IdText(a)
                   /\ \A d \in Range(DetailSections(result_html)) :
                         \A b \in Range(DetailBlocks(d)) : BlockId(b) # IdText(a)
              ELSE \A t \in Range(ListTables(result_html)) :
                      \E row \in Range(ListRows(t)) :
                         row.id = IdText(a) /\ row.label = ClaimLabel(PyInt(a.d.riskcode))

C8_Witness ==
    /\ Returned
    /\ \E i, j \in 1..Len(InputAlerts) :
          /\ HasRiskOnly(InputAlerts[i])
          /\ InputAlerts[j].d.riskcode = JStr(<<"1">>)
          /\ InputAlerts[j].d.risk = JStr(<<"3">>)
    /\ Len(ListTables(result_html)) = 1
    /\ Len(ListRows(ListTables(result_html)[1])) = 1

\* A list row, a detail block, that describes alert a
RowIsOf(row, a) ==
    /\ row.label = ClaimLabel(ClaimSeverity(a))
    /\ row.count = InstanceCount(a)
    /\ Plain(IdText(a)) => row.id = IdText(a)
BlockIsOf(b, a) ==
    /\ BlockLabel(b) = ClaimLabel(ClaimSeverity(a))
    /\ BlockCount(b) = InstanceCount(a)
    /\ Len(InstanceStarts(b)) = InstanceCount(a)
    /\ Plain(IdText(a)) => BlockId(b) = IdText(a)
\* C9: every alert list table has one row, and every alert detail section
\* one block, per alert of the first site with severity greater than 0, in
\* the input's order: the k-th row and the k-th block carry the k-th such
\* alert's plugin id and severity label, and both show the length of its
\* instances sequence, which is the number of instance sub-blocks.
C9_OneEntryPerAlert ==
    Returned =>
        /\ \A t \in Range(ListTables(result_html)) :
              /\ Len(ListRows(t)) = Len(Rendered)
              /\ \A k \in 1..Len(Rendered) : RowIsOf(ListRows(t)[k], Rendered[k])
        /\ \A d \in Range(DetailSections(result_html)) :
              /\ Len(DetailBlocks(d)) = Len(Rendered)
              /\ \A k \in 1..Len(Rendered) : BlockIsOf(DetailBlocks(d)[k], Rendered[k])
        /\ \A t \in Range(ListTables(result_html)) :
              \A d \in Range(DetailSections(result_html)) :
                 \A k \in 1..Len(Rendered) : ListRows(t)[k].id = BlockId(DetailBlocks(d)[k])

C9_Witness ==
    /\ Returned
    /\ Len(InputAlerts) = 3
    /\ Len(Rendered) = 2
    /\ ClaimSeverity(InputAlerts[2]) = 0
    /\ InstanceCount(Rendered[1]) = 2
    /\ InstanceCount(Rendered[2]) = 0
    /\ Len(ListTables(result_html)) = 1
    /\ Len(DetailSections(result_html)) = 1

\* Text that a substitution inserted from the report: in result_html and
\* not in the template; a later substitution keeps it
SiteText == <<"Site: ">> \o PyStr(site)
VersionText == <<"ZAP Version: ">> \o PyStr(Get(zap_data.d.version, JStr(<<"Unknown">>)))
Inserted(text) == Contains(result_html, text) /\ ~Contains(template, text)
InsertedStays ==
    pc \in {"gen_summary", "gen_list", "gen_details"} =>
       /\ Inserted(SiteText) => Contains(result_html', SiteText)
       /\ Inserted(VersionText) => Contains(result_html', VersionText)
\* C10: text that an earlier substitution put into result_html from the
\* report (the site heading, the version line) is still there after every
\* later substitution.
C10_InsertedTextStays == [][InsertedStays]_vars

=============================================================================
